---- MODULE Spec2Model ----
(***************************************************************************)
(* LinuxAudioRecorder: the PulseAudio module chain of the D-Bus recorder   *)
(* (audio_recorder.py), of the command line recorder (simple_test.py), and *)
(* the JSON configuration (Config).                                        *)
(*                                                                         *)
(* The sound server is a collaborator: module_load either returns a fresh  *)
(* module index or raises PulseError, module_unload either removes the     *)
(* module or raises PulseError.  Every call is logged.                     *)
(***************************************************************************)
EXTENDS Integers, Sequences, FiniteSets, TLC

VARIABLES
    script,             \* which program runs: "service", "cli", "config", or "record":
                        \* a caller of record_audio with a config of its own
    \* ---- sound server and its call log
    server,             \* set of module indexes currently loaded
    nextHandle,         \* the index the next successful module_load returns
    loads,              \* number of module_load calls issued
    unloadLog,          \* module indexes of every module_unload call issued, in order
    faults,             \* number of sound-server calls that raised
    signals,            \* number of signals (SIGINT, SIGTERM) delivered
    \* ---- Config (audio_recorder.py)
    DEFAULT_CONFIG,     \* the class attribute: one dict object, shared
    settings_ref,       \* what self.settings refers to: "DEFAULT" (that object) or "own"
    own,                \* the dict load_config built by merging, when settings_ref = "own"
    config_file,        \* contents of config.json
    cop,                \* last Config operation: "init", "load", "save", "set", "env"
    branch,             \* the branch the last load_config took: "file", "missing", "error"
    saved,              \* the settings the last save_config call wrote to the file
    rt,                 \* "saved": that write was the last operation; "reloaded": a
                        \* load_config that read the file followed it directly
    \* ---- AudioRecorder (audio_recorder.py)
    is_recording,
    current_recording,
    modules,
    pc,                 \* position of the service's main thread
    module,             \* local `module` of setup/start: loaded, not yet appended
    n,                  \* which module_load of the chain is next or running (1..4)
    it,                 \* position of cleanup's for loop in its list
    cret,               \* who called cleanup: "setup", "start", "stop", "signal"
    op, pre, ret,       \* the start/stop call in progress or last returned, the state at its entry, its result
    answer,             \* what the last IsRecording / GetCurrentRecording returned, until the next call
    chain,              \* indexes obtained by the last start_recording that ran setup
    failedAt,           \* which module_load of that start raised (0: none)
    queryFailed,        \* a server_info query of that start raised
    live,               \* start returned True and no cleanup began since
    sigChain,           \* indexes of the recording that was active when a signal arrived
    sigLive,            \* a signal arrived while is_recording
    sigAt,              \* where the main thread was at each signal, in order of arrival
    \* ---- simple_test.py
    cpc,                \* position of main's thread
    got,                \* indexes setup_recording's locals hold so far
    cli_modules,        \* main's `modules`: None or the list setup_recording returned
    monitor,            \* main's `monitor` is an AudioLevelMonitor (not None)
    running,            \* AudioLevelMonitor.running
    thread,             \* the monitor's thread: "none", "alive", "exited"
    cit,                \* position of cleanup_modules' for loop
    pending,            \* what main does once its finally block is through
    mainRet,            \* "none", main's return value "0" / "1", or "raised"
    setupFailedAt,      \* which module_load of setup_recording raised (0: none)
    intAt,              \* where in the try block KeyboardInterrupt was raised ("none": nowhere)
    recResult,          \* "none", or how record_audio ended: "ok", "failed"
    bit_depth,          \* config.settings['bit_depth']
    cmd,                \* the argument list handed to subprocess.run (<<>>: none yet)
    raised              \* "none", or the exception record_audio let through

svars == <<server, nextHandle, loads, unloadLog, faults, signals>>
gvars == <<DEFAULT_CONFIG, settings_ref, own, config_file, cop, branch, saved, rt>>
state == <<is_recording, current_recording, modules>>
ctl == <<pc, module, n, it, cret>>
call == <<op, pre, ret>>
hist == <<chain, failedAt, queryFailed, sigChain, sigLive, sigAt>>
rvars == <<state, ctl, call, answer, hist, live>>
capture == <<bit_depth, cmd, raised>>
cvars == <<cpc, got, cli_modules, monitor, running, thread, cit, pending, mainRet,
           setupFailedAt, intAt, recResult, capture>>
vars == <<script, svars, gvars, rvars, cvars>>

\* ---- bounds
MaxLoads == 8
MaxClock == 2
MaxSignals == 1
MaxFaults == 2

\* ---- values
None == <<"None">>
EmptyStr == <<>>

Range(s) == {s[i] : i \in 1..Len(s)}
Count(s, x) == Cardinality({i \in 1..Len(s) : s[i] = x})

\* ---- Config ------------------------------------------------------------

\* DEFAULT_CONFIG as written in the class body (volumes in tenths)
OriginalDefaults ==
    [output_dir |-> "~/Recordings", format |-> "wav", sample_rate |-> 44100,
     channels |-> 2, mic_volume |-> 10, system_volume |-> 8]

\* self.settings: the dict object the attribute refers to
settings == IF settings_ref = "DEFAULT" THEN DEFAULT_CONFIG ELSE own

\* config.json: absent, unreadable as a JSON object, or a JSON object
Missing == [kind |-> "missing"]
Corrupt == [kind |-> "corrupt"]

\* the Python type of the value each setting holds (volumes are floats)
PyType(k) ==
    CASE k \in {"sample_rate", "channels"} -> "int"
      [] k \in {"mic_volume", "system_volume"} -> "float"
      [] OTHER -> "str"

\* the JSON token json.dump writes for a value: a string, a number without a
\* fraction for an int, a number with one fraction digit for a float (tenths)
JsonEncode(k, v) ==
    CASE PyType(k) = "str" -> <<"string", v>>
      [] PyType(k) = "int" -> <<"number", v, <<>>>>
      [] PyType(k) = "float" -> <<"number", v \div 10, <<v % 10>>>>

\* the value json.load builds from a token: str, int when the number has no
\* fraction, float when it has one
JsonDecode(t) ==
    IF t[1] = "string" THEN t[2]
    ELSE IF t[3] = <<>> THEN t[2]
    ELSE t[2] * 10 + t[3][1]

\* json.dump(self.settings, f): the object with the settings' keys and scalar values
JsonDump(m) == [kind |-> "json", obj |-> [k \in DOMAIN m |-> JsonEncode(k, m[k])]]

\* json.load(f) of a file holding a JSON object
JsonLoad(f) == [k \in DOMAIN f.obj |-> JsonDecode(f.obj[k])]

MergeDefaultsWin(d, f) ==
    [k \in DOMAIN d \cup DOMAIN f |-> IF k \in DOMAIN d THEN d[k] ELSE f[k]]
\* {**d, **f}: every key of either, the file's value where it has the key
Merge(d, f) ==
    [k \in DOMAIN d \cup DOMAIN f |-> IF k \in DOMAIN f THEN f[k] ELSE d[k]]

\* the JSON object with no keys
EmptyObj == [k \in {} |-> 0]

\* what a user or an earlier run may have left in config.json
EnvFiles ==
    {Missing, Corrupt, JsonDump(EmptyObj),
     JsonDump([output_dir |-> "/tmp/rec"]),
     JsonDump([format |-> "ogg", bit_depth |-> "16"])}

\* the values a caller assigns to a setting in place
Assignable(k) ==
    CASE k = "output_dir" -> {"~/Recordings", "/cwd"}
      [] k = "format" -> {"wav", "ogg"}

\* load_config's branch: the file exists and parses, it does not exist, or
\* exists() / open / json.load / the merge raised
LoadBranch(f, io) ==
    IF io = "fail" \/ f.kind = "corrupt" THEN "error"
    ELSE IF f.kind = "missing" THEN "missing"
    ELSE "file"

LoadWritesAlways(b) == b \in {"missing", "file"}
\* load_config calls save_config in its else branch only
LoadWrites(b) == b = "missing"

\* what self.settings refers to after load_config took branch b
LoadedRef(b) == IF b = "file" THEN "own" ELSE "DEFAULT"

\* the dict load_config builds in the branch that merges
LoadedOwn(b, f) == IF b = "file" THEN Merge(DEFAULT_CONFIG, JsonLoad(f)) ELSE EmptyObj

\* the settings load_config ends with
LoadedSettings(b, f) == IF b = "file" THEN LoadedOwn(b, f) ELSE DEFAULT_CONFIG

\* config.json after load_config: save_config's write, when it is called and
\* open(..., 'w') does not raise
LoadedFile(b, f, wr) ==
    IF LoadWrites(b) /\ wr = "ok" THEN JsonDump(LoadedSettings(b, f)) ELSE f

\* ---- AudioRecorder ------------------------------------------------------

\* the module each load of the chain asks for
ModuleName(k) ==
    CASE k = 1 -> "module-combine-sink"
      [] k = 2 -> "module-loopback"
      [] k = 3 -> "module-combine-source"
      [] k = 4 -> "module-pipe-source"

\* the loads whose arguments query the server for a default device
QueriesDefault(k) == k \in {1, 3}

\* generate_filename at wall-clock second t: output_dir / recording_<t>.<format>
generate_filename(t) == <<settings["output_dir"], t, settings["format"]>>

\* str(current_recording or '')
StrOrEmpty(p) == IF p = None THEN EmptyStr ELSE p

StartRejectsNever == FALSE
\* start_recording's guard
StartRejects == is_recording

StopRejectsNever == FALSE
\* stop_recording's guard
StopRejects == ~is_recording

CleanupTargetsSkipFirst == IF modules = <<>> THEN <<>> ELSE Tail(modules)
\* the list cleanup's for loop walks
CleanupTargets == modules

ClearedKeeps(ms) == ms
\* self.modules.clear()
Cleared(ms) == <<>>

AfterUnloadErrorLeavesLoop(i) == Len(modules) + 1
\* except pulsectl.PulseError: pass -- inside the loop body, so the for loop
\* goes on with the next module
AfterUnloadError(i) == i + 1

ClearedRecordingKeeps == current_recording
\* self.current_recording = None
ClearedRecording == None

SignalCleansNever == FALSE
\* signal_handler's guard before cleanup
SignalCleans == TRUE

Snapshot ==
    [is_recording |-> is_recording, current_recording |-> current_recording,
     modules |-> modules, loads |-> loads, unloads |-> Len(unloadLog),
     live |-> live, op |-> op, ret |-> ret]

NoSnapshot ==
    [is_recording |-> FALSE, current_recording |-> None, modules |-> <<>>,
     loads |-> 0, unloads |-> 0, live |-> FALSE, op |-> "none", ret |-> <<>>]

InitServer ==
    /\ server = {}
    /\ nextHandle = 1
    /\ loads = 0
    /\ unloadLog = <<>>
    /\ faults = 0
    /\ signals = 0

InitRecorder ==
    /\ is_recording = FALSE
    /\ current_recording = None
    /\ modules = <<>>
    /\ pc = "idle"
    /\ module = 0
    /\ n = 0
    /\ it = 0
    /\ cret = "none"
    /\ op = "none"
    /\ pre = NoSnapshot
    /\ ret = <<>>
    /\ answer = <<>>
    /\ chain = <<>>
    /\ failedAt = 0
    /\ queryFailed = FALSE
    /\ live = FALSE
    /\ sigChain = <<>>
    /\ sigLive = FALSE
    /\ sigAt = <<>>

\* begin a cleanup() call on behalf of `who`
EnterCleanup(who) ==
    /\ pc' = "cleanup"
    /\ it' = 1
    /\ cret' = who
    /\ live' = FALSE

\* StartRecording -> start_recording, up to the guard
CallStart ==
    /\ script = "service"
    /\ pc = "idle"
    /\ is_recording \/ loads + 4 <= MaxLoads
    /\ op' = "start"
    /\ pre' = Snapshot
    /\ answer' = <<>>
    /\ IF StartRejects
         THEN /\ ret' = <<FALSE>>
              /\ UNCHANGED <<pc, n, chain, failedAt, queryFailed>>
         ELSE /\ ret' = <<>>
              /\ pc' = "query"
              /\ n' = 1
              /\ chain' = <<>>
              /\ failedAt' = 0
              /\ queryFailed' = FALSE
    /\ UNCHANGED <<script, cvars, svars, gvars, state, module, it, cret, live, sigChain,
                   sigLive, sigAt>>

\* get_default_sink / get_default_source: server_info answers, or raises PulseError
\* and the getter returns None; either way the load that wanted the name goes on
QueryDefault ==
    /\ script = "service"
    /\ pc = "query"
    /\ \/ UNCHANGED <<queryFailed, faults>>
       \/ /\ faults < MaxFaults
          /\ faults' = faults + 1
          /\ queryFailed' = TRUE
    /\ pc' = "load"
    /\ UNCHANGED <<script, cvars, server, nextHandle, loads, unloadLog, signals, gvars, state,
                   module, n, it, cret, call, answer, chain, failedAt, sigChain,
                   sigLive, sigAt, live>>

\* module_load returns an index
LoadOk ==
    /\ script = "service"
    /\ pc = "load"
    /\ loads' = loads + 1
    /\ module' = nextHandle
    /\ nextHandle' = nextHandle + 1
    /\ server' = server \cup {nextHandle}
    /\ chain' = Append(chain, nextHandle)
    /\ pc' = "append"
    /\ UNCHANGED <<script, cvars, unloadLog, faults, signals, gvars, state, n, it, cret, call,
                   answer, failedAt, queryFailed, sigChain, sigLive, sigAt, live>>

\* module_load raises PulseError: setup_combined_recording's handler for the first
\* three loads, start_recording's for the fourth
LoadFail ==
    /\ script = "service"
    /\ pc = "load"
    /\ faults < MaxFaults
    /\ faults' = faults + 1
    /\ loads' = loads + 1
    /\ failedAt' = n
    /\ EnterCleanup(IF n <= 3 THEN "setup" ELSE "start")
    /\ UNCHANGED <<script, cvars, server, nextHandle, unloadLog, signals, gvars, state, module,
                   n, call, answer, chain, queryFailed, sigChain, sigLive, sigAt>>

\* self.modules.append(module)
AppendModule ==
    /\ script = "service"
    /\ pc = "append"
    /\ modules' = Append(modules, module)
    /\ module' = 0
    /\ IF n < 3
         THEN /\ n' = n + 1
              /\ pc' = IF QueriesDefault(n + 1) THEN "query" ELSE "load"
         ELSE /\ n' = n
              /\ pc' = IF n = 3 THEN "genname" ELSE "set_flag"
    /\ UNCHANGED <<script, cvars, svars, gvars, is_recording, current_recording, it, cret,
                   call, answer, hist, live>>

\* setup returned "combined_recording"; self.current_recording = generate_filename()
GenName ==
    /\ script = "service"
    /\ pc = "genname"
    /\ \E t \in 1..MaxClock : current_recording' = generate_filename(t)
    /\ n' = 4
    /\ pc' = "load"
    /\ UNCHANGED <<script, cvars, svars, gvars, is_recording, modules, module, it, cret, call,
                   answer, hist, live>>

\* self.is_recording = True; return True
SetFlag ==
    /\ script = "service"
    /\ pc = "set_flag"
    /\ is_recording' = TRUE
    /\ live' = TRUE
    /\ ret' = <<TRUE>>
    /\ pc' = "idle"
    /\ UNCHANGED <<script, cvars, svars, gvars, current_recording, modules, module, n, it,
                   cret, op, pre, answer, hist>>

\* StopRecording -> stop_recording, up to the guard
CallStop ==
    /\ script = "service"
    /\ pc = "idle"
    /\ op' = "stop"
    /\ pre' = Snapshot
    /\ answer' = <<>>
    /\ IF StopRejects
         THEN /\ ret' = <<FALSE>>
              /\ UNCHANGED <<pc, it, cret, live>>
         ELSE /\ ret' = <<>>
              /\ EnterCleanup("stop")
    /\ UNCHANGED <<script, cvars, svars, gvars, state, module, n, hist>>

\* IsRecording
CallIsRecording ==
    /\ script = "service"
    /\ pc = "idle"
    /\ answer' = <<"is", is_recording>>
    /\ UNCHANGED <<script, cvars, svars, gvars, state, ctl, call, hist, live>>

\* GetCurrentRecording
CallGetCurrentRecording ==
    /\ script = "service"
    /\ pc = "idle"
    /\ answer' = <<"get", StrOrEmpty(current_recording)>>
    /\ UNCHANGED <<script, cvars, svars, gvars, state, ctl, call, hist, live>>

\* one turn of cleanup's for loop: module_unload, PulseError swallowed
CleanupUnload ==
    /\ script = "service"
    /\ pc = "cleanup"
    /\ it <= Len(CleanupTargets)
    /\ unloadLog' = Append(unloadLog, CleanupTargets[it])
    /\ \/ /\ server' = server \ {CleanupTargets[it]}
          /\ it' = it + 1
          /\ UNCHANGED faults
       \/ /\ faults < MaxFaults
          /\ faults' = faults + 1
          /\ it' = AfterUnloadError(it)
          /\ UNCHANGED server
    /\ UNCHANGED <<script, cvars, nextHandle, loads, signals, gvars, state, pc, module, n, cret,
                   call, answer, hist, live>>

\* the loop is over: self.modules.clear()
CleanupClear ==
    /\ script = "service"
    /\ pc = "cleanup"
    /\ it > Len(CleanupTargets)
    /\ modules' = Cleared(modules)
    /\ pc' = "cl_flag"
    /\ UNCHANGED <<script, cvars, svars, gvars, is_recording, current_recording, module, n, it,
                   cret, call, answer, hist, live>>

\* self.is_recording = False
CleanupFlag ==
    /\ script = "service"
    /\ pc = "cl_flag"
    /\ is_recording' = FALSE
    /\ pc' = "cl_cur"
    /\ UNCHANGED <<script, cvars, svars, gvars, current_recording, modules, module, n, it,
                   cret, call, answer, hist, live>>

\* self.current_recording = None, and cleanup returns to its caller:
\* setup returns None, so start raises and its handler calls cleanup again;
\* start returns False; stop returns True; the signal handler exits
CleanupReturn ==
    /\ script = "service"
    /\ pc = "cl_cur"
    /\ current_recording' = ClearedRecording
    /\ CASE cret = "setup" ->
              /\ EnterCleanup("start")
              /\ UNCHANGED ret
         [] cret = "start" ->
              /\ pc' = "idle"
              /\ ret' = <<FALSE>>
              /\ UNCHANGED <<it, cret, live>>
         [] cret = "stop" ->
              /\ pc' = "idle"
              /\ ret' = <<TRUE>>
              /\ UNCHANGED <<it, cret, live>>
         [] cret = "signal" ->
              /\ pc' = "exited"
              /\ UNCHANGED <<it, cret, live, ret>>
    /\ UNCHANGED <<script, cvars, svars, gvars, is_recording, modules, module, n, op, pre,
                   answer, hist>>

\* SIGINT or SIGTERM: signal_handler runs on the main thread, on top of whatever
\* it was doing, and ends in sys.exit, so what it interrupted never resumes
Signal ==
    /\ script = "service"
    /\ pc /= "exited"
    /\ signals < MaxSignals
    /\ signals' = signals + 1
    /\ answer' = <<>>
    /\ sigLive' = (sigLive \/ is_recording)
    /\ sigAt' = Append(sigAt, pc)
    /\ sigChain' = IF is_recording THEN chain ELSE sigChain
    /\ IF SignalCleans
         THEN EnterCleanup("signal")
         ELSE /\ pc' = "exited"
              /\ UNCHANGED <<it, cret, live>>
    /\ UNCHANGED <<script, cvars, server, nextHandle, loads, unloadLog, faults, gvars, state,
                   module, n, call, chain, failedAt, queryFailed>>

RecorderNext ==
    \/ CallStart
    \/ QueryDefault
    \/ LoadOk
    \/ LoadFail
    \/ AppendModule
    \/ GenName
    \/ SetFlag
    \/ CallStop
    \/ CallIsRecording
    \/ CallGetCurrentRecording
    \/ CleanupUnload
    \/ CleanupClear
    \/ CleanupFlag
    \/ CleanupReturn
    \/ Signal

\* ---- simple_test.py -----------------------------------------------------

NoneList == [none |-> TRUE, list |-> <<>>]
ListOf(l) == [none |-> FALSE, list |-> l]

\* truth value of main's `modules`: None and the empty list are false
Truthy(m) == ~m.none /\ m.list /= <<>>

\* the number of module_load calls of setup_recording
ChainLength == 5

\* the module each load of setup_recording asks for
CliModuleName(k) ==
    CASE k = 1 -> "module-combine-sink"
      [] k = 3 -> "module-null-sink"
      [] k \in {2, 4, 5} -> "module-loopback"

\* the positions of main's thread inside the try block
TryBlock == {"c_query", "c_load", "c_sleep", "c_check", "c_monitor", "c_record"}

\* the positions inside the finally block, outside cleanup_modules' try
FinallyBlock == {"c_finally", "c_join", "c_cleanup", "c_close"}

\* main's return value: `return 1` inside the try block, else the final `return 0`
ReturnValue(p) == IF p = "return1" THEN "1" ELSE "0"

\* --bit-depth: argparse admits these values only
BitDepthChoices == {"16", "24", "32float"}

\* the bit_depth values a caller of record_audio may hold in its config
BitDepthInputs == BitDepthChoices \cup {"32"}

format_flagsAll32(bd) ==
    CASE bd = "16" -> <<>>
      [] bd = "24" -> <<"--format=float32le">>
      [] bd = "32float" -> <<"--format=float32le">>
\* record_audio's table format_flags, by key
format_flags(bd) ==
    CASE bd = "16" -> <<>>
      [] bd = "24" -> <<"--format=s24le">>
      [] bd = "32float" -> <<"--format=float32le">>

\* the keys of format_flags: any other subscript raises KeyError
FormatKeys == {"16", "24", "32float"}

\* the list `cmd` record_audio builds (values of duration, channels, rate and
\* the output file left symbolic)
RecordCmd(bd) ==
    <<"parec", "--device=recording_sink.monitor", "-d", "duration",
      "--channels", "channels", "--rate", "sample_rate", "--file-format=wav">>
        \o format_flags(bd) \o <<"output_file">>

StoppedFlagStaysSet == TRUE
\* AudioLevelMonitor.stop: self.running = False
StoppedFlag == FALSE

InitCli ==
    /\ bit_depth \in (CASE script = "cli" -> BitDepthChoices
                       [] script = "record" -> BitDepthInputs
                       [] OTHER -> {"32float"})
    /\ cmd = <<>>
    /\ raised = "none"
    /\ cpc = "c_query"
    /\ got = <<>>
    /\ cli_modules = NoneList
    /\ monitor = FALSE
    /\ running = FALSE
    /\ thread = "none"
    /\ cit = 0
    /\ pending = "none"
    /\ mainRet = "none"
    /\ setupFailedAt = 0
    /\ intAt = "none"
    /\ recResult = "none"

\* setup_recording: the two server_info() queries; PulseError is caught by
\* `except Exception`, setup_recording returns None
CliQuery ==
    /\ script = "cli"
    /\ cpc = "c_query"
    /\ \/ /\ cpc' = "c_load"
          /\ UNCHANGED <<faults, cli_modules>>
       \/ /\ faults < MaxFaults
          /\ faults' = faults + 1
          /\ cli_modules' = NoneList
          /\ cpc' = "c_check"
    /\ UNCHANGED <<script, capture, gvars, rvars, server, nextHandle, loads, unloadLog, signals,
                   got, monitor, running, thread, cit, pending, mainRet, setupFailedAt,
                   intAt, recResult>>

\* module_load returns an index, kept in a local; after the fifth the list is returned
CliLoadOk ==
    /\ script = "cli"
    /\ cpc = "c_load"
    /\ loads' = loads + 1
    /\ nextHandle' = nextHandle + 1
    /\ server' = server \cup {nextHandle}
    /\ got' = Append(got, nextHandle)
    /\ IF Len(got') = ChainLength
         THEN /\ cli_modules' = ListOf(got')
              /\ cpc' = "c_check"
         ELSE /\ UNCHANGED cli_modules
              /\ cpc' = IF Len(got') = 2 THEN "c_sleep" ELSE "c_load"
    /\ UNCHANGED <<script, capture, gvars, rvars, unloadLog, faults, signals, monitor, running,
                   thread, cit, pending, mainRet, setupFailedAt, intAt, recResult>>

\* time.sleep(1) between the second and the third load
CliSleep ==
    /\ script = "cli"
    /\ cpc = "c_sleep"
    /\ cpc' = "c_load"
    /\ UNCHANGED <<script, capture, svars, gvars, rvars, got, cli_modules, monitor, running,
                   thread, cit, pending, mainRet, setupFailedAt, intAt, recResult>>

\* module_load raises: `except Exception` logs it and setup_recording returns None
CliLoadFail ==
    /\ script = "cli"
    /\ cpc = "c_load"
    /\ faults < MaxFaults
    /\ faults' = faults + 1
    /\ loads' = loads + 1
    /\ setupFailedAt' = Len(got) + 1
    /\ cli_modules' = NoneList
    /\ cpc' = "c_check"
    /\ UNCHANGED <<script, capture, gvars, rvars, server, nextHandle, unloadLog, signals, got,
                   monitor, running, thread, cit, pending, mainRet, intAt, recResult>>

\* `if not modules: return 1`
CliCheck ==
    /\ script = "cli"
    /\ cpc = "c_check"
    /\ IF ~Truthy(cli_modules)
         THEN /\ pending' = "return1"
              /\ cpc' = "c_finally"
         ELSE /\ UNCHANGED pending
              /\ cpc' = "c_monitor"
    /\ UNCHANGED <<script, capture, svars, gvars, rvars, got, cli_modules, monitor, running,
                   thread, cit, mainRet, setupFailedAt, intAt, recResult>>

\* monitor = AudioLevelMonitor(...); monitor.start()
CliMonitorStart ==
    /\ script = "cli"
    /\ cpc = "c_monitor"
    /\ monitor' = TRUE
    /\ running' = TRUE
    /\ thread' = "alive"
    /\ cpc' = "c_record"
    /\ UNCHANGED <<script, capture, svars, gvars, rvars, got, cli_modules, cit, pending, mainRet,
                   setupFailedAt, intAt, recResult>>

\* record_audio: parec ran to its end, record_audio returns True
CliRecordOk ==
    /\ script = "cli"
    /\ cpc = "c_record"
    /\ cmd' = RecordCmd(bit_depth)
    /\ recResult' = "ok"
    /\ pending' = "return0"
    /\ cpc' = "c_finally"
    /\ UNCHANGED <<script, bit_depth, raised, svars, gvars, rvars, got, cli_modules, monitor, running,
                   thread, cit, mainRet, setupFailedAt, intAt>>

\* record_audio: CalledProcessError, record_audio returns False, main `return 1`
CliRecordFail ==
    /\ script = "cli"
    /\ cpc = "c_record"
    /\ cmd' = RecordCmd(bit_depth)
    /\ recResult' = "failed"
    /\ pending' = "return1"
    /\ cpc' = "c_finally"
    /\ UNCHANGED <<script, bit_depth, raised, svars, gvars, rvars, got, cli_modules, monitor, running,
                   thread, cit, mainRet, setupFailedAt, intAt>>

\* KeyboardInterrupt inside the try block: neither setup_recording's nor
\* record_audio's handler catches it; main's handler prints, then the finally
\* block runs and main goes on to its last line
CliInterrupt ==
    /\ script = "cli"
    /\ cpc \in TryBlock
    /\ signals < MaxSignals
    /\ signals' = signals + 1
    /\ intAt' = cpc
    /\ pending' = "return0"
    /\ cpc' = "c_finally"
    /\ UNCHANGED <<script, capture, gvars, rvars, server, nextHandle, loads, unloadLog, faults,
                   got, cli_modules, monitor, running, thread, cit, mainRet,
                   setupFailedAt, recResult>>

\* KeyboardInterrupt inside the finally block: nothing catches it, main raises
CliInterruptFinally ==
    /\ script = "cli"
    /\ cpc \in FinallyBlock
    /\ signals < MaxSignals
    /\ signals' = signals + 1
    /\ mainRet' = "raised"
    /\ cpc' = "c_done"
    /\ UNCHANGED <<script, capture, gvars, rvars, server, nextHandle, loads, unloadLog, faults,
                   got, cli_modules, monitor, running, thread, cit, pending,
                   setupFailedAt, intAt, recResult>>

\* KeyboardInterrupt inside cleanup_modules' try, before module_unload reached the
\* server: the bare except swallows it and the loop goes on to the next module
CliInterruptSwallowed ==
    /\ script = "cli"
    /\ cpc = "c_cleanup"
    /\ Truthy(cli_modules)
    /\ cit <= Len(cli_modules.list)
    /\ signals < MaxSignals
    /\ signals' = signals + 1
    /\ cit' = cit + 1
    /\ UNCHANGED <<script, capture, gvars, rvars, server, nextHandle, loads, unloadLog, faults,
                   cpc, got, cli_modules, monitor, running, thread, pending, mainRet,
                   setupFailedAt, intAt, recResult>>

\* finally: `if monitor: monitor.stop()` up to the join
CliFinally ==
    /\ script = "cli"
    /\ cpc = "c_finally"
    /\ IF monitor
         THEN /\ running' = StoppedFlag
              /\ cpc' = "c_join"
              /\ UNCHANGED cit
         ELSE /\ UNCHANGED running
              /\ cpc' = "c_cleanup"
              /\ cit' = 1
    /\ UNCHANGED <<script, capture, svars, gvars, rvars, got, cli_modules, monitor, thread,
                   pending, mainRet, setupFailedAt, intAt, recResult>>

\* self._thread.join() returns once the thread has ended
CliJoin ==
    /\ script = "cli"
    /\ cpc = "c_join"
    /\ thread /= "alive"
    /\ cpc' = "c_cleanup"
    /\ cit' = 1
    /\ UNCHANGED <<script, capture, svars, gvars, rvars, got, cli_modules, monitor, running,
                   thread, pending, mainRet, setupFailedAt, intAt, recResult>>

\* _monitor_loop: `while self.running` sees False
MonitorExit ==
    /\ script = "cli"
    /\ cpc /= "c_done"
    /\ thread = "alive"
    /\ ~running
    /\ thread' = "exited"
    /\ UNCHANGED <<script, capture, svars, gvars, rvars, cpc, got, cli_modules, monitor, running,
                   cit, pending, mainRet, setupFailedAt, intAt, recResult>>

\* _monitor_loop: the input stream raises, the error is logged, the thread ends
MonitorError ==
    /\ script = "cli"
    /\ cpc /= "c_done"
    /\ thread = "alive"
    /\ thread' = "exited"
    /\ UNCHANGED <<script, capture, svars, gvars, rvars, cpc, got, cli_modules, monitor, running,
                   cit, pending, mainRet, setupFailedAt, intAt, recResult>>

\* cleanup_modules: one turn of the loop, any exception swallowed
CliCleanupUnload ==
    /\ script = "cli"
    /\ cpc = "c_cleanup"
    /\ Truthy(cli_modules)
    /\ cit <= Len(cli_modules.list)
    /\ unloadLog' = Append(unloadLog, cli_modules.list[cit])
    /\ \/ /\ server' = server \ {cli_modules.list[cit]}
          /\ UNCHANGED faults
       \/ /\ faults < MaxFaults
          /\ faults' = faults + 1
          /\ UNCHANGED server
    /\ cit' = cit + 1
    /\ UNCHANGED <<script, capture, gvars, rvars, nextHandle, loads, signals, cpc, got,
                   cli_modules, monitor, running, thread, pending, mainRet,
                   setupFailedAt, intAt, recResult>>

\* cleanup_modules returns: `if modules:` was false, or the loop is over
CliCleanupDone ==
    /\ script = "cli"
    /\ cpc = "c_cleanup"
    /\ ~Truthy(cli_modules) \/ cit > Len(cli_modules.list)
    /\ cpc' = "c_close"
    /\ UNCHANGED <<script, capture, svars, gvars, rvars, got, cli_modules, monitor, running,
                   thread, cit, pending, mainRet, setupFailedAt, intAt, recResult>>

\* pulse.close(), and main returns
CliClose ==
    /\ script = "cli"
    /\ cpc = "c_close"
    /\ mainRet' = ReturnValue(pending)
    /\ cpc' = "c_done"
    /\ UNCHANGED <<script, capture, svars, gvars, rvars, got, cli_modules, monitor, running,
                   thread, cit, pending, setupFailedAt, intAt, recResult>>

CliNext ==
    \/ CliQuery
    \/ CliLoadOk
    \/ CliSleep
    \/ CliLoadFail
    \/ CliCheck
    \/ CliMonitorStart
    \/ CliRecordOk
    \/ CliRecordFail
    \/ CliInterrupt
    \/ CliInterruptFinally
    \/ CliInterruptSwallowed
    \/ CliFinally
    \/ CliJoin
    \/ MonitorExit
    \/ MonitorError
    \/ CliCleanupUnload
    \/ CliCleanupDone
    \/ CliClose

\* ---- record_audio called on its own ---------------------------------------

\* record_audio(duration, output_file, config): the table lookup while the list
\* is built, then subprocess.run; CalledProcessError is caught, KeyError is not
record_audio ==
    /\ script = "record"
    /\ recResult = "none"
    /\ raised = "none"
    /\ IF bit_depth \in FormatKeys
         THEN /\ cmd' = RecordCmd(bit_depth)
              /\ recResult' \in {"ok", "failed"}
              /\ UNCHANGED raised
         ELSE /\ raised' = "KeyError"
              /\ UNCHANGED <<cmd, recResult>>
    /\ UNCHANGED <<script, svars, gvars, rvars, bit_depth, cpc, got, cli_modules, monitor,
                   running, thread, cit, pending, mainRet, setupFailedAt, intAt>>

\* ---- Config actions -----------------------------------------------------

\* Config.load_config, also as called by Config.__init__
load_config ==
    /\ script = "config"
    /\ \E io \in {"ok", "fail"}, wr \in {"ok", "fail"} :
          LET b == LoadBranch(config_file, io) IN
          /\ branch' = b
          /\ settings_ref' = LoadedRef(b)
          /\ own' = LoadedOwn(b, config_file)
          /\ config_file' = LoadedFile(b, config_file, wr)
          /\ rt' = IF rt = "saved" /\ b = "file" THEN "reloaded" ELSE "none"
    /\ cop' = "load"
    /\ UNCHANGED <<script, svars, rvars, cvars, DEFAULT_CONFIG, saved>>

\* Config.save_config: the write, or an exception logged and dropped
save_config ==
    /\ script = "config"
    /\ settings_ref /= "unset"
    /\ \E wr \in {"ok", "fail"} :
          IF wr = "ok"
            THEN /\ config_file' = JsonDump(settings)
                 /\ saved' = settings
                 /\ rt' = "saved"
            ELSE /\ rt' = "none"
                 /\ UNCHANGED <<config_file, saved>>
    /\ cop' = "save"
    /\ UNCHANGED <<script, svars, rvars, cvars, DEFAULT_CONFIG, settings_ref, own, branch>>

\* config.settings[k] = v: an assignment into the dict self.settings refers to
SetItem ==
    /\ script = "config"
    /\ settings_ref /= "unset"
    /\ \E k \in {"output_dir", "format"} : \E v \in Assignable(k) :
          IF settings_ref = "DEFAULT"
            THEN /\ DEFAULT_CONFIG' = [DEFAULT_CONFIG EXCEPT ![k] = v]
                 /\ UNCHANGED own
            ELSE /\ own' = [own EXCEPT ![k] = v]
                 /\ UNCHANGED DEFAULT_CONFIG
    /\ cop' = "set"
    /\ rt' = "none"
    /\ UNCHANGED <<script, svars, rvars, cvars, settings_ref, config_file, branch, saved>>

\* the file is edited, damaged or removed from outside the program
EnvWrite ==
    /\ script = "config"
    /\ \E f \in EnvFiles : config_file' = f
    /\ config_file' /= config_file
    /\ cop' = "env"
    /\ rt' = "none"
    /\ UNCHANGED <<script, svars, rvars, cvars, DEFAULT_CONFIG, settings_ref, own, branch, saved>>

ConfigNext ==
    \/ load_config
    \/ save_config
    \/ SetItem
    \/ EnvWrite

\* the recorder programs start with their Config built on a first run (no file
\* yet); the Config client starts before Config.__init__ has called load_config
InitConfig ==
    /\ DEFAULT_CONFIG = OriginalDefaults
    /\ own = EmptyObj
    /\ cop = "init"
    /\ saved = EmptyObj
    /\ rt = "none"
    /\ IF script = "config"
         THEN /\ settings_ref = "unset"
              /\ config_file \in EnvFiles
              /\ branch = "none"
         ELSE /\ settings_ref = "DEFAULT"
              /\ config_file = JsonDump(OriginalDefaults)
              /\ branch = "missing"

Init ==
    /\ script \in {"service", "cli", "config", "record"}
    /\ InitServer
    /\ InitConfig
    /\ InitRecorder
    /\ InitCli

Next ==
    \/ RecorderNext
    \/ CliNext
    \/ ConfigNext
    \/ record_audio

Spec == Init /\ [][Next]_vars

\* the command line recorder alone, its two threads scheduled fairly: the
\* monitor thread wakes from time.sleep(0.1) and tests self.running again, and
\* the main thread's join returns once the monitor thread has ended
InitCliRun == Init /\ script = "cli"

FairThreads == WF_vars(MonitorExit) /\ WF_vars(CliJoin)

SpecCliFair == InitCliRun /\ [][CliNext]_vars /\ FairThreads

\* ---- claims --------------------------------------------------------------

\* C1: when the N-th module_load of start_recording (N in 1..4) raises after the
\* first N-1 returned, each of the N-1 indexes obtained gets exactly one
\* module_unload call, start_recording returns False, and afterwards
\* is_recording is False, modules is empty and current_recording is None.
C1_FailedStartUnwinds ==
    (script = "service" /\ op = "start" /\ pc = "idle" /\ failedAt \in 1..4)
        => /\ ret = <<FALSE>>
           /\ Len(chain) = failedAt - 1
           /\ \A h \in Range(chain) : Count(unloadLog, h) = 1
           /\ Len(unloadLog) - pre.unloads = failedAt - 1
           /\ is_recording = FALSE
           /\ modules = <<>>
           /\ current_recording = None

C1_Witness ==
    /\ script = "service" /\ op = "start" /\ pc = "idle" /\ failedAt = 3
    /\ ret = <<FALSE>> /\ Len(chain) = 2 /\ Range(chain) \subseteq Range(unloadLog)

\* C3: once start_recording has returned True and no stop or cleanup happened
\* since, a further start_recording returns False, issues no module_load and no
\* module_unload, and leaves is_recording, current_recording and modules as they were.
C3_SecondStartRejected ==
    (script = "service" /\ op = "start" /\ pre.live)
        => /\ ret = <<FALSE>>
           /\ loads = pre.loads
           /\ pc = "idle" =>
                /\ Len(unloadLog) = pre.unloads
                /\ is_recording = pre.is_recording
                /\ current_recording = pre.current_recording
                /\ modules = pre.modules

C3_Witness ==
    /\ script = "service" /\ op = "start" /\ pc = "idle" /\ ret = <<FALSE>>
    /\ pre.live /\ pre.op = "start" /\ pre.ret = <<TRUE>>
    /\ is_recording /\ Len(modules) = 4

\* C4: stop_recording called while is_recording is False returns False, issues no
\* module_unload and leaves modules, is_recording and current_recording as they were.
C4_StopWhenIdle ==
    (script = "service" /\ op = "stop" /\ pc = "idle" /\ ~pre.is_recording)
        => /\ ret = <<FALSE>>
           /\ Len(unloadLog) = pre.unloads
           /\ modules = pre.modules
           /\ is_recording = pre.is_recording
           /\ current_recording = pre.current_recording

C4_Witness ==
    /\ script = "service" /\ op = "stop" /\ pc = "idle" /\ ret = <<FALSE>>
    /\ pre.op = "stop" /\ pre.ret = <<TRUE>> /\ pre.unloads = 4

\* C7: stop_recording called while recording returns True, issues exactly one
\* module_unload for each of the four owned indexes, and leaves modules empty and
\* is_recording False; after start -> True, stop -> True the list is empty.
C7_StopReleasesChain ==
    /\ (script = "service" /\ op = "stop" /\ pc = "idle" /\ pre.is_recording)
          => /\ ret = <<TRUE>>
             /\ Cardinality(Range(pre.modules)) = 4
             /\ Len(unloadLog) - pre.unloads = 4
             /\ \A h \in Range(pre.modules) : Count(unloadLog, h) = 1
             /\ modules = <<>>
             /\ is_recording = FALSE
    /\ (script = "service" /\ op = "stop" /\ pc = "idle" /\ ret = <<TRUE>>
            /\ pre.op = "start" /\ pre.ret = <<TRUE>>)
          => modules = <<>>

C7_Witness ==
    /\ script = "service" /\ op = "stop" /\ pc = "idle" /\ ret = <<TRUE>>
    /\ pre.op = "start" /\ pre.ret = <<TRUE>> /\ Len(pre.modules) = 4
    /\ Range(pre.modules) \subseteq Range(unloadLog)

\* C8: after start_recording returned True and the following stop_recording has
\* returned, current_recording still names the file of the recording just made.
C8_PathSurvivesStop ==
    (script = "service" /\ op = "stop" /\ pc = "idle" /\ ret = <<TRUE>>
        /\ pre.op = "start" /\ pre.ret = <<TRUE>>)
        => /\ current_recording = pre.current_recording
           /\ current_recording /= None

\* C2: in the command line recorder, when the N-th module_load of setup_recording
\* (N in 1..5) raises after the first N-1 returned, each of the N-1 indexes
\* obtained gets exactly one module_unload call before main returns (runs with no
\* KeyboardInterrupt).
C2_CliFailedSetupUnwinds ==
    (script = "cli" /\ cpc = "c_done" /\ mainRet \in {"0", "1"} /\ signals = 0
        /\ setupFailedAt \in 1..ChainLength)
        => /\ Len(got) = setupFailedAt - 1
           /\ \A h \in Range(got) : Count(unloadLog, h) = 1

\* C5: when a signal arrives while a recording is active, every module index
\* acquired for that recording has received a module_unload call by the time the
\* process exits: in the service through signal_handler -> cleanup -> exit, in the
\* command line recorder (one KeyboardInterrupt, raised during record_audio)
\* through main's finally block.
C5_SignalReleasesChain ==
    /\ (script = "service" /\ pc = "exited" /\ sigLive)
          => /\ Cardinality(Range(sigChain)) = 4
             /\ Range(sigChain) \subseteq Range(unloadLog)
    /\ (script = "cli" /\ cpc = "c_done" /\ intAt = "c_record" /\ signals = 1)
          => /\ mainRet /= "raised"
             /\ Cardinality(Range(got)) = ChainLength
             /\ Range(got) \subseteq Range(unloadLog)

C5_Witness ==
    /\ script = "service" /\ pc = "exited" /\ sigLive
    /\ Len(sigChain) = 4 /\ Range(sigChain) \subseteq Range(unloadLog)

\* the command line recorder's case of C5 happens too
C5_WitnessCli ==
    /\ script = "cli" /\ cpc = "c_done" /\ intAt = "c_record" /\ signals = 1
    /\ Len(got) = ChainLength /\ Range(got) \subseteq Range(unloadLog)

\* C6: main returns 0 only when the recording completed; it returns 1 when
\* setup_recording fails, when the capture subprocess fails and when the run is
\* interrupted by KeyboardInterrupt.
C6_ExitCode ==
    (script = "cli" /\ cpc = "c_done" /\ mainRet \in {"0", "1"})
        => /\ mainRet = "0" => (recResult = "ok" /\ intAt = "none")
           /\ (intAt = "none" /\ ~Truthy(cli_modules)) => mainRet = "1"
           /\ recResult = "failed" => mainRet = "1"
           /\ intAt /= "none" => mainRet = "1"

\* C9: load_config never writes config.json; the file's contents change only
\* when save_config is invoked.
C9_LoadNeverWrites == [][cop' = "load" => config_file' = config_file]_vars

\* C9 as amended: load_config writes config.json only when the file does not
\* exist, and then writes the settings it fell back to (the defaults) through
\* save_config; a load that finds the file leaves it as it is, and besides that
\* the program changes the file only in save_config.
C9_LoadWritesOnlyWhenMissing ==
    [][(script = "config" /\ config_file' /= config_file /\ cop' /= "env")
          => \/ cop' = "save"
             \/ /\ cop' = "load"
                /\ config_file = Missing
                /\ branch' = "missing"
                /\ config_file' = JsonDump(DEFAULT_CONFIG)]_vars

C9_Witness ==
    /\ script = "config" /\ cop = "load" /\ branch = "file"
    /\ config_file.kind = "json" /\ JsonLoad(config_file) /= settings

\* C10: whenever load_config falls back to the defaults (no file, or a read or
\* parse failure), the resulting settings equal the built-in default values,
\* whatever was assigned in place to a Config's settings before.
C10_FallbackIsOriginal ==
    (script = "config" /\ cop = "load" /\ branch \in {"missing", "error"})
        => settings = OriginalDefaults

\* C11: a load_config that reads the file right after a save_config wrote it
\* (neither with an I/O failure) ends with settings equal to the settings that
\* were saved, key for key and value for value.
C11_RoundTrip ==
    (script = "config" /\ rt = "reloaded")
        => /\ cop = "load" /\ branch = "file"
           /\ settings = saved
           /\ JsonLoad(config_file) = saved

C11_Witness ==
    /\ script = "config" /\ rt = "reloaded" /\ settings_ref = "own"
    /\ settings = saved /\ settings /= OriginalDefaults
    /\ "bit_depth" \in DOMAIN settings /\ settings["output_dir"] = "/cwd"

\* the sample-format flags of parec that occur in a command
SampleFormats == {"--format=s16le", "--format=s24le", "--format=s32le", "--format=float32le"}
FormatFlagsIn(c) == {i \in 1..Len(c) : c[i] \in SampleFormats}

\* C12: whenever record_audio has launched the capture command, the command
\* carries exactly one sample-format flag, the one of the bit depth.
C12_EveryDepthHasItsFlag ==
    (script \in {"cli", "record"} /\ cmd /= <<>>)
        => Cardinality(FormatFlagsIn(cmd)) = 1

\* C12 as amended: the command record_audio launches carries --format=s24le and
\* no other sample-format flag for bit_depth '24', --format=float32le and no
\* other for '32float', and no sample-format flag at all for '16'; for any other
\* bit_depth no command is launched, record_audio returns neither True nor False
\* and the KeyError leaves it.
C12_DepthSelectsFormat ==
    (script \in {"cli", "record"})
        => /\ cmd /= <<>> =>
                /\ bit_depth \in {"16", "24", "32float"}
                /\ {cmd[i] : i \in FormatFlagsIn(cmd)} =
                      (CASE bit_depth = "16" -> {}
                         [] bit_depth = "24" -> {"--format=s24le"}
                         [] bit_depth = "32float" -> {"--format=float32le"})
                /\ Cardinality(FormatFlagsIn(cmd)) <= 1
           /\ bit_depth \notin {"16", "24", "32float"} =>
                /\ cmd = <<>>
                /\ recResult = "none"
           /\ raised /= "none" => bit_depth \notin {"16", "24", "32float"}
           /\ (script = "record" /\ recResult = "none" /\ raised = "none") => cmd = <<>>

C12_Witness ==
    /\ script = "record" /\ bit_depth = "24" /\ recResult = "ok"
    /\ \E i \in 1..Len(cmd) : cmd[i] = "--format=s24le"

\* the unrecognised value's case of C12 happens too
C12_WitnessKeyError ==
    /\ script = "record" /\ bit_depth = "32" /\ raised = "KeyError" /\ cmd = <<>>

\* C13: when a signal arrived while start_recording or a cleanup sweep was
\* running, every module index the server handed out has received exactly one
\* module_unload call by the time the process exits.
C13_SignalAnywhere ==
    (script = "service" /\ pc = "exited" /\ \E i \in 1..Len(sigAt) : sigAt[i] /= "idle")
        => \A h \in 1..(nextHandle - 1) : Count(unloadLog, h) = 1

\* C14: in the command line recorder, when KeyboardInterrupt is raised inside
\* setup_recording after k >= 1 module_load calls returned, each of those k
\* indexes has received a module_unload call when main returns.
C14_InterruptedSetupUnwinds ==
    (script = "cli" /\ cpc = "c_done" /\ mainRet \in {"0", "1"}
        /\ intAt \in {"c_load", "c_sleep"} /\ Len(got) >= 1)
        => Range(got) \subseteq Range(unloadLog)

\* C15: once a default sink or source query of a start_recording call has
\* raised, that call issues no further module_load, and when it returns it
\* returns False with is_recording False and modules empty.
C15_FailedQueryAborts ==
    [][(script = "service" /\ op = "start" /\ op' = "start" /\ queryFailed
            /\ ~pre.is_recording)
          => /\ loads' = loads
             /\ pc' = "idle" => (ret' = <<FALSE>> /\ ~is_recording' /\ modules' = <<>>)]_vars

\* C16: a cleanup sweep over the owned list h1..hk (called by stop_recording, or
\* by the signal handler while the service is between calls) issues module_unload
\* for every hi exactly once before the list is cleared, also when the unload of
\* an earlier handle raised PulseError; the list is then empty, is_recording is
\* False, and stop_recording returns True.
C16_SweepSurvivesUnloadError ==
    /\ (script = "service" /\ op = "stop" /\ pre.is_recording /\ cret = "stop"
            /\ pc \in {"cl_flag", "cl_cur", "idle"})
          => /\ Len(unloadLog) - pre.unloads = Len(pre.modules)
             /\ \A h \in Range(pre.modules) : Count(unloadLog, h) = 1
             /\ modules = <<>>
             /\ pc \in {"cl_cur", "idle"} => ~is_recording
             /\ pc = "idle" => ret = <<TRUE>>
    /\ (script = "service" /\ cret = "signal" /\ sigAt = <<"idle">> /\ sigLive
            /\ pc \in {"cl_flag", "cl_cur", "exited"})
          => /\ \A h \in Range(sigChain) : Count(unloadLog, h) = 1
             /\ modules = <<>>
             /\ pc \in {"cl_cur", "exited"} => ~is_recording

C16_Witness ==
    /\ script = "service" /\ op = "stop" /\ pre.is_recording /\ cret = "stop"
    /\ pc = "idle" /\ ret = <<TRUE>> /\ Len(pre.modules) = 4
    /\ pre.modules[1] \in server /\ pre.modules[2] \notin server
    /\ pre.modules[3] \in server /\ pre.modules[4] \notin server
    /\ \A h \in Range(pre.modules) : Count(unloadLog, h) = 1

Reverse(s) == [i \in 1..Len(s) |-> s[Len(s) + 1 - i]]

\* C17: a teardown issues its module_unload calls in the reverse of the order
\* in which the modules were loaded, in AudioRecorder.cleanup (here: called by
\* stop_recording) and in cleanup_modules (here: a run with no KeyboardInterrupt).
C17_ReverseTeardown ==
    /\ (script = "service" /\ op = "stop" /\ pc = "idle" /\ pre.is_recording)
          => SubSeq(unloadLog, pre.unloads + 1, Len(unloadLog)) = Reverse(pre.modules)
    /\ (script = "cli" /\ cpc = "c_done" /\ signals = 0 /\ Truthy(cli_modules))
          => unloadLog = Reverse(cli_modules.list)

C19_MonitorStops ==
    /\ (script = "cli" /\ cpc = "c_join") ~> (cpc = "c_cleanup" \/ mainRet = "raised")
    /\ []((script = "cli" /\ monitor /\ (unloadLog /= <<>> \/ mainRet \in {"0", "1"}))
            => (thread = "exited" /\ ~running))
    /\ [][(thread = "alive" /\ thread' = "exited")
            => (loads' = loads /\ unloadLog' = unloadLog /\ server' = server)]_vars

C19_Witness ==
    /\ script = "cli" /\ cpc = "c_cleanup" /\ cit = 1 /\ monitor /\ ~running
    /\ thread = "exited" /\ Truthy(cli_modules) /\ unloadLog = <<>> /\ signals = 0

====
